---------------------------- MODULE Spec2Model ----------------------------
(***************************************************************************)
(* A model of highlight-ez: the language registry (target_language.rs),    *)
(* the artifact cache prober, the parser provisioner and the renderer      *)
(* (lib.rs).                                                               *)
(*                                                                         *)
(* Text (Rust &str, String, Path) is a sequence of one-character strings,  *)
(* so that lowercasing, path joining and splitting are computed.           *)
(***************************************************************************)
EXTENDS Integers, Sequences, FiniteSets, TLC

VARIABLES
    homeOk,     \* environment: std::env::home_dir() resolves
    homePath,   \* environment: the home directory
    cwdOk,      \* environment: std::env::current_dir() succeeds
    grammars,   \* environment: file types for which the loader finds a grammar
    tagging,    \* environment: the highlight queries of the grammars tag text
    theme,      \* environment: the theme of the configuration, its styles
    files,      \* the filesystem: the set of paths that exist
    calls,      \* number of API calls started so far
    call,       \* per caller: the call in progress (position, locals, history)
    pstate      \* the last call of the string-parsing API

vars == << homeOk, homePath, cwdOk, grammars, tagging, theme, files, calls, call, pstate >>

(***************************************************************************)
(* Option and Result values.                                               *)
(***************************************************************************)
None == [some |-> FALSE]
Some(x) == [some |-> TRUE, val |-> x]
Ok(x) == [ok |-> TRUE, val |-> x]
Err(e) == [ok |-> FALSE, err |-> e]

\* error.rs: the two variants of HtmlRenderingError
SharedLibDoesntExist == "SharedLibDoesntExist"
LanguageParserNotImplemented == "LanguageParserNotImplemented"

(***************************************************************************)
(* target_language.rs: the language registry.                              *)
(***************************************************************************)
TargetLanguage ==
    {"Rust", "Python", "Json", "Yaml", "Toml", "Html", "Javascript", "Shell"}

\* TargetLanguage::extension
extension(self) ==
    CASE self = "Rust" -> Some(<<".","r","s">>)
      [] self = "Yaml" -> Some(<<".","y","m","l">>)
      [] self = "Python" -> Some(<<".","p","y">>)
      [] self = "Json" -> Some(<<".","j","s","o","n">>)
      [] self = "Javascript" -> Some(<<".","r","s">>)
      [] self = "Shell" -> Some(<<".","s","h">>)
      [] self = "Html" -> Some(<<".","h","t","m","l">>)
      [] self = "Toml" -> Some(<<".","t","o","m","l">>)

\* TargetLanguage::soname
soname(self) ==
    CASE self = "Rust" -> Some(<<"r","u","s","t",".","s","o">>)
      [] self = "Yaml" -> Some(<<"y","a","m","l",".","s","o">>)
      [] self = "Python" -> Some(<<"p","y","t","h","o","n",".","s","o">>)
      [] self = "Json" -> Some(<<"j","s","o","n",".","s","o">>)
      [] self = "Javascript" -> Some(<<"j","a","v","a","s","c","r","i","p","t",".","s","o">>)
      [] self = "Shell" -> Some(<<"s","h","e","l","l",".","s","o">>)
      [] self = "Html" -> Some(<<"h","t","m","l",".","s","o">>)
      [] self = "Toml" -> Some(<<"t","o","m","l",".","s","o">>)

\* TargetLanguage::git_repo
git_repo(self) ==
    CASE self = "Rust" -> Some(<<"h","t","t","p","s",":","/","/","g","i","t","h","u","b",".","c","o","m","/","t","r","e","e","-","s","i","t","t","e","r","/","t","r","e","e","-","s","i","t","t","e","r","-","r","u","s","t",".","g","i","t">>)
      [] self = "Yaml" -> Some(<<"h","t","t","p","s",":","/","/","g","i","t","h","u","b",".","c","o","m","/","t","r","e","e","-","s","i","t","t","e","r","-","g","r","a","m","m","a","r","s","/","t","r","e","e","-","s","i","t","t","e","r","-","y","a","m","l",".","g","i","t">>)
      [] self = "Python" -> Some(<<"h","t","t","p","s",":","/","/","g","i","t","h","u","b",".","c","o","m","/","t","r","e","e","-","s","i","t","t","e","r","/","t","r","e","e","-","s","i","t","t","e","r","-","p","y","t","h","o","n",".","g","i","t">>)
      [] self = "Json" -> Some(<<"h","t","t","p","s",":","/","/","g","i","t","h","u","b",".","c","o","m","/","t","r","e","e","-","s","i","t","t","e","r","/","t","r","e","e","-","s","i","t","t","e","r","-","j","s","o","n",".","g","i","t">>)
      [] self = "Javascript" -> Some(<<"h","t","t","p","s",":","/","/","g","i","t","h","u","b",".","c","o","m","/","t","r","e","e","-","s","i","t","t","e","r","/","t","r","e","e","-","s","i","t","t","e","r","-","j","a","v","a","s","c","r","i","p","t",".","g","i","t">>)
      [] self = "Shell" -> Some(<<"h","t","t","p","s",":","/","/","g","i","t","h","u","b",".","c","o","m","/","t","r","e","e","-","s","i","t","t","e","r","/","t","r","e","e","-","s","i","t","t","e","r","-","b","a","s","h",".","g","i","t">>)
      [] self = "Html" -> Some(<<"h","t","t","p","s",":","/","/","g","i","t","h","u","b",".","c","o","m","/","t","r","e","e","-","s","i","t","t","e","r","/","t","r","e","e","-","s","i","t","t","e","r","-","h","t","m","l",".","g","i","t">>)
      [] self = "Toml" -> Some(<<"h","t","t","p","s",":","/","/","g","i","t","h","u","b",".","c","o","m","/","i","k","a","t","y","a","n","g","/","t","r","e","e","-","s","i","t","t","e","r","-","t","o","m","l",".","g","i","t">>)

\* The arms of the match in from_str, in source order: << pattern, language >>.
AliasTable == <<
    << <<"r","u","s","t">>, "Rust" >>,
    << <<"r","s">>, "Rust" >>,
    << <<".","r","s">>, "Rust" >>,
    << <<"p","y","t","h","o","n">>, "Python" >>,
    << <<"p","y">>, "Python" >>,
    << <<".","p","y">>, "Python" >>,
    << <<"j","s","o","n">>, "Json" >>,
    << <<".","j","s","o","n">>, "Json" >>,
    << <<"y","a","m","l">>, "Yaml" >>,
    << <<".","y","a","m","l">>, "Yaml" >>,
    << <<".","y","m","l">>, "Yaml" >>,
    << <<"y","m","l">>, "Yaml" >>,
    << <<"t","o","m","l">>, "Toml" >>,
    << <<".","t","o","m","l">>, "Toml" >>,
    << <<"h","t","m","l">>, "Html" >>,
    << <<".","h","t","m","l">>, "Html" >>,
    << <<"j","a","v","a","s","c","r","i","p","t">>, "Javascript" >>,
    << <<"j","s">>, "Javascript" >>,
    << <<".","j","s">>, "Javascript" >>,
    << <<"s","h","e","l","l">>, "Shell" >>,
    << <<"s","h">>, "Shell" >>,
    << <<".","s","h">>, "Shell" >>,
    << <<"z","s","h">>, "Shell" >>,
    << <<"b","a","s","h">>, "Shell" >>
>>

AsciiUpper == <<"A","B","C","D","E","F","G","H","I","J","K","L","M","N","O","P","Q","R","S","T","U","V","W","X","Y","Z">>
AsciiLower == <<"a","b","c","d","e","f","g","h","i","j","k","l","m","n","o","p","q","r","s","t","u","v","w","x","y","z">>

\* A character outside ASCII is written as its code point, "U+00C9".
\* The capital letters of Latin-1 (U+00C0..U+00DE without U+00D7) and their
\* small letters (U+00E0..U+00FE)
Latin1Upper == <<
    "U+00C0", "U+00C1", "U+00C2", "U+00C3", "U+00C4", "U+00C5", "U+00C6",
    "U+00C7", "U+00C8", "U+00C9", "U+00CA", "U+00CB", "U+00CC", "U+00CD",
    "U+00CE", "U+00CF", "U+00D0", "U+00D1", "U+00D2", "U+00D3", "U+00D4",
    "U+00D5", "U+00D6", "U+00D8", "U+00D9", "U+00DA", "U+00DB", "U+00DC",
    "U+00DD", "U+00DE" >>
Latin1Lower == <<
    "U+00E0", "U+00E1", "U+00E2", "U+00E3", "U+00E4", "U+00E5", "U+00E6",
    "U+00E7", "U+00E8", "U+00E9", "U+00EA", "U+00EB", "U+00EC", "U+00ED",
    "U+00EE", "U+00EF", "U+00F0", "U+00F1", "U+00F2", "U+00F3", "U+00F4",
    "U+00F5", "U+00F6", "U+00F8", "U+00F9", "U+00FA", "U+00FB", "U+00FC",
    "U+00FD", "U+00FE" >>

\* The text functions below are defined on Characters, the part of Unicode
\* the model represents: ASCII, Latin-1 and the characters of OtherUpper,
\* OtherLower and U+0130, U+0131, U+0307, U+03C2.  The grave accent is
\* written "U+0060".  On a character outside Characters they have no value.

\* capitals outside Latin-1 and their small letters: among them U+0178 and
\* U+1E9E, which lower into Latin-1, the titlecase U+01C5, capital sigma
\* (U+03A3), the Kelvin sign (U+212A) and the Angstrom sign (U+212B)
OtherUpper == <<
    "U+0100", "U+0178", "U+01C5", "U+0391", "U+03A3", "U+0410", "U+1E9E",
    "U+212A", "U+212B" >>
OtherLower == <<
    "U+0101", "U+00FF", "U+01C6", "U+03B1", "U+03C3", "U+0430", "U+00DF",
    "k", "U+00E5" >>

\* the characters with a one-character lowercase other than themselves, and
\* that lowercase (core::unicode::conversions::to_lower)
UpperTable == AsciiUpper \o Latin1Upper \o OtherUpper
LowerTable == AsciiLower \o Latin1Lower \o OtherLower
Capitals == { UpperTable[i] : i \in DOMAIN UpperTable }

\* cased characters that are neither in UpperTable nor in LowerTable
CasedNoCapital == {
    "U+00AA", "U+00B5", "U+00BA", "U+0130", "U+0131", "U+03C2" }

\* the characters with the Unicode property Case_Ignorable
CaseIgnorableChars == {
    "'", ".", ":", "^", "U+0060", "U+00A8", "U+00AD", "U+00AF", "U+00B4",
    "U+00B7", "U+00B8", "U+0307" }

\* the characters with neither property
Uncased == {
    "\t", "\n", "\r", " ", "!", "\"", "#", "$", "%", "&", "(", ")", "*",
    "+", ",", "-", "/", "0", "1", "2", "3", "4", "5", "6", "7", "8", "9",
    ";", "<", "=", ">", "?", "@", "[", "\\", "]", "_", "{", "|", "}", "~",
    "U+00A0", "U+00A1", "U+00A2", "U+00A3", "U+00A4", "U+00A5", "U+00A6",
    "U+00A7", "U+00A9", "U+00AB", "U+00AC", "U+00AE", "U+00B0", "U+00B1",
    "U+00B2", "U+00B3", "U+00B6", "U+00B9", "U+00BB", "U+00BC", "U+00BD",
    "U+00BE", "U+00BF", "U+00D7", "U+00F7" }

\* the characters with the Unicode property Cased
CasedChars ==
    Capitals \cup { LowerTable[i] : i \in DOMAIN LowerTable } \cup CasedNoCapital

Characters == CasedChars \cup CaseIgnorableChars \cup Uncased

\* the characters that are their own lowercase
Unchanged == Characters \ (Capitals \cup {"U+0130"})

\* char::to_lowercase: the characters a character lowers to.  U+0130
\* (capital I with dot above) lowers to two characters; a character of
\* UpperTable to its entry of LowerTable; any other of Characters to itself
char_to_lowercase(c) ==
    CASE c = "U+0130" -> << "i", "U+0307" >>
      [] c \in Capitals ->
            << LowerTable[CHOOSE i \in DOMAIN UpperTable : UpperTable[i] = c] >>
      [] c \in Unchanged -> << c >>

\* core::unicode::Cased and core::unicode::Case_Ignorable
Cased(c) ==
    CASE c \in CasedChars -> TRUE
      [] c \in CaseIgnorableChars \cup Uncased -> FALSE
CaseIgnorable(c) ==
    CASE c \in CaseIgnorableChars -> TRUE
      [] c \in CasedChars \cup Uncased -> FALSE

\* case_ignorable_then_cased: the first character that is not
\* case-ignorable is a cased one
RECURSIVE case_ignorable_then_cased(_)
case_ignorable_then_cased(chars) ==
    IF chars = <<>> THEN FALSE
    ELSE IF CaseIgnorable(Head(chars)) THEN case_ignorable_then_cased(Tail(chars))
    ELSE Cased(Head(chars))

\* the text backwards
Reversed(s) == [i \in 1..Len(s) |-> s[Len(s) + 1 - i]]

\* map_uppercase_sigma: the capital sigma at position i lowers to the final
\* sigma (U+03C2) at the end of a word, to U+03C3 elsewhere
map_uppercase_sigma(from, i) ==
    IF /\ case_ignorable_then_cased(Reversed(SubSeq(from, 1, i - 1)))
       /\ ~case_ignorable_then_cased(SubSeq(from, i + 1, Len(from)))
    THEN "U+03C2" ELSE "U+03C3"

\* str::to_lowercase from position i on
RECURSIVE to_lowercase_from(_, _)
to_lowercase_from(s, i) ==
    IF i > Len(s) THEN <<>>
    ELSE (IF s[i] = "U+03A3" THEN << map_uppercase_sigma(s, i) >>
          ELSE char_to_lowercase(s[i]))
         \o to_lowercase_from(s, i + 1)

\* str::to_lowercase
to_lowercase(s) == to_lowercase_from(s, 1)

\* the match of from_str on the lowercased query: the first arm that equals it
match_query(query) ==
    IF \E i \in DOMAIN AliasTable : AliasTable[i][1] = query
    THEN LET first == CHOOSE i \in DOMAIN AliasTable :
                          /\ AliasTable[i][1] = query
                          /\ \A j \in 1..(i-1) : AliasTable[j][1] # query
         IN Ok(AliasTable[first][2])
    ELSE Err(LanguageParserNotImplemented)

\* a from_str that forgets to lowercase its argument
from_str_case_sensitive(s) == match_query(s)

\* impl FromStr for TargetLanguage
from_str(s) == match_query(to_lowercase(s))

\* a parse_or_default that hands back the default whatever the query
parse_or_default_always_default(query, default) == default

\* TargetLanguage::parse_or_default
parse_or_default(query, default) ==
    LET r == from_str(query)
    IN IF r.ok THEN r.val ELSE default

(***************************************************************************)
(* Paths (std::path).  A path is a text; components are joined by "/".     *)
(***************************************************************************)
HomeDir == <<"/","h">>
\* the same with a separator at its end, as HOME may be set
HomeDirWithSeparator == <<"/","h","/">>
\* a byte that is not valid UTF-8, as a directory name may hold on Unix
InvalidByte == "0xFF"
HomeDirNotUtf8 == <<"/","h",InvalidByte>>
HomeDirs == {HomeDir, HomeDirWithSeparator, HomeDirNotUtf8}
DotCache == <<".","c","a","c","h","e">>
TreeSitter == <<"t","r","e","e","-","s","i","t","t","e","r">>
Lib == <<"l","i","b">>
Parsers == <<"p","a","r","s","e","r","s">>
GrammarJs == <<"g","r","a","m","m","a","r",".","j","s">>
SrcDir == <<"s","r","c">>
ParserC == <<"p","a","r","s","e","r",".","c">>
DummyName == <<"d","u","m","m","y","-","n","a","m","e">>

\* Path::join (PathBuf::push): an absolute component replaces the path; a
\* separator is added unless the path is empty or ends with one
join(path, component) ==
    IF component # <<>> /\ Head(component) = "/" THEN component
    ELSE IF path = <<>> \/ path[Len(path)] = "/" THEN path \o component
    ELSE path \o <<"/">> \o component

\* the positions of character ch in text s
Positions(s, ch) == {i \in 1..Len(s) : s[i] = ch}

\* the largest / smallest element of a non-empty set of numbers
MaxOf(S) == CHOOSE x \in S : \A y \in S : y <= x
MinOf(S) == CHOOSE x \in S : \A y \in S : x <= y

\* Path::file_name: the text after the last separator
file_name(path) ==
    IF Positions(path, "/") = {} THEN path
    ELSE SubSeq(path, MaxOf(Positions(path, "/")) + 1, Len(path))

\* str::split(".").next(): the text before the first "."
split_first(s) ==
    IF Positions(s, ".") = {} THEN s
    ELSE SubSeq(s, 1, MinOf(Positions(s, ".")) - 1)

\* Path::with_extension on a name without a dot: name, ".", extension
with_extension(name, ext) == IF ext = <<>> THEN name ELSE name \o <<".">> \o ext

\* Path::extension: the text after the last "." of the file name, if any
path_extension(path) ==
    LET name == file_name(path)
        dots == Positions(name, ".") \ {1}
    IN IF dots = {} THEN None
       ELSE Some(SubSeq(name, MaxOf(dots) + 1, Len(name)))

\* std::env::home_dir()
home_dir == IF homeOk THEN Some(homePath) ELSE None

\* OsStr::to_str: the text, when it is valid UTF-8
to_str(path) ==
    IF \E i \in DOMAIN path : path[i] = InvalidByte THEN None ELSE Some(path)

\* lib.rs:131 and lib.rs:190: <home>/.cache/tree-sitter/lib
cache_path(home_path) == join(join(join(home_path, DotCache), TreeSitter), Lib)

\* a provisioner that builds the artifact into the clone root instead of the cache
gp_sopath_in_parsers(home_path, lang) ==
    join(join(join(join(home_path, DotCache), TreeSitter), Parsers), soname(lang).val)

\* generate_parser: the artifact path handed to the compiler (lib.rs:131-136)
gp_sopath(home_path, lang) == join(cache_path(home_path), soname(lang).val)

\* check_for_parser: the artifact path that is probed (lib.rs:190-197)
cp_sopath(home_path, target_lang) == join(cache_path(home_path), soname(target_lang).val)

\* a clone directory named by the URL's last segment up to its first "-"
repo_name_cut_at_dash(git_url) ==
    LET name == file_name(git_url)
    IN SubSeq(name, 1, MinOf({i \in DOMAIN name : name[i] = "-"}) - 1)

\* generate_parser: the clone directory name (lib.rs:138-142)
repo_name(git_url) == split_first(file_name(git_url))

\* generate_parser: the clone directory (lib.rs:144-148)
repo_path(home_path, lang) ==
    join(join(join(join(home_path, DotCache), TreeSitter), Parsers),
         repo_name(git_repo(lang).val))

\* generate_parser: the grammar definition inside the clone (lib.rs:155)
grammar_path(home_path, lang) == join(repo_path(home_path, lang), GrammarJs)

\* the parser source the generation toolchain writes inside the clone
generated_path(home_path, lang) ==
    join(join(repo_path(home_path, lang), SrcDir), ParserC)

\* Path::exists
exists(path) == path \in files

\* the clone directory and what this pipeline puts in it
clone_tree(home_path, lang) ==
    { repo_path(home_path, lang), grammar_path(home_path, lang),
      generated_path(home_path, lang) }

\* what a successful generate_parser(lang) leaves on disk (lib.rs:150-177)
provisioned(home_path, lang) ==
    clone_tree(home_path, lang) \cup { gp_sopath(home_path, lang) }

\* a prober that takes the home directory for granted
check_for_parser_home_assumed(target_lang) ==
    IF ~soname(target_lang).some THEN Err(SharedLibDoesntExist)
    ELSE IF ~exists(cp_sopath(homePath, target_lang))
         THEN Err(SharedLibDoesntExist)
         ELSE Ok(<<>>)

(***************************************************************************)
(* lib.rs:183-207: the artifact cache prober.                              *)
(***************************************************************************)
check_for_parser(target_lang) ==
    IF ~home_dir.some THEN Err(SharedLibDoesntExist)
    ELSE IF ~soname(target_lang).some THEN Err(SharedLibDoesntExist)
    ELSE IF ~exists(cp_sopath(home_dir.val, target_lang))
         THEN Err(SharedLibDoesntExist)
         ELSE Ok(<<>>)

(***************************************************************************)
(* The HTML serializer driven by string_html (HtmlRenderer of              *)
(* tree-sitter-highlight).  html is the output text, one element per       *)
(* source character, escape or tag; line_offsets are 0-based offsets into  *)
(* it.                                                                     *)
(***************************************************************************)
HtmlRenderer_new == [html |-> <<>>, line_offsets |-> <<0>>]

html_escape(c) ==
    CASE c = ">" -> "&gt;"
      [] c = "<" -> "&lt;"
      [] c = "&" -> "&amp;"
      [] c = "'" -> "&#39;"
      [] c = "\"" -> "&quot;"
      [] OTHER -> c

\* lib.rs:48-53: the attribute callback: the css text of the theme's style
\* for the highlight, or the empty text when the style has none
attribute_callback(th, highlight) ==
    LET css == th.styles[highlight + 1].css
    IN IF css.some THEN css.val ELSE <<>>

\* HtmlRenderer::start_highlight: the opening tag, with the attribute when
\* it is not empty
start_highlight(th, highlight) ==
    LET attribute_string == attribute_callback(th, highlight)
    IN <<"<span">>
       \o (IF attribute_string # <<>> THEN <<" ">> \o attribute_string ELSE <<>>)
       \o <<">">>

\* HtmlRenderer::end_highlight
end_highlight == <<"</span>">>

\* the closing tags, and the opening tags, of the highlights that are open
RECURSIVE end_highlights(_)
end_highlights(highlights) ==
    IF highlights = <<>> THEN <<>>
    ELSE end_highlight \o end_highlights(Tail(highlights))

RECURSIVE start_highlights(_, _)
start_highlights(th, highlights) ==
    IF highlights = <<>> THEN <<>>
    ELSE start_highlight(th, Head(highlights)) \o start_highlights(th, Tail(highlights))

\* HtmlRenderer::add_text: carriage returns are not rendered; at a line feed
\* the open highlights are closed, the line ends, and they are opened again
RECURSIVE add_text(_, _, _, _)
add_text(r, src, highlights, th) ==
    IF src = <<>> THEN r
    ELSE LET c == Head(src)
         IN IF c = "\r" THEN add_text(r, Tail(src), highlights, th)
            ELSE IF c = "\n"
            THEN LET closed == r.html \o end_highlights(highlights) \o <<"\n">>
                 IN add_text([html |-> closed \o start_highlights(th, highlights),
                              line_offsets |-> Append(r.line_offsets, Len(closed))],
                             Tail(src), highlights, th)
            ELSE add_text([r EXCEPT !.html = Append(@, html_escape(c))],
                          Tail(src), highlights, th)

\* the event loop of HtmlRenderer::render; highlights is the stack of the
\* highlights that are open
RECURSIVE render_events(_, _, _, _, _)
render_events(r, events, source, highlights, th) ==
    IF events = <<>> THEN r
    ELSE LET e == Head(events)
         IN CASE e.type = "HighlightStart" ->
                    render_events([r EXCEPT !.html = @ \o start_highlight(th, e.highlight)],
                                  Tail(events), source, Append(highlights, e.highlight), th)
              [] e.type = "HighlightEnd" ->
                    render_events([r EXCEPT !.html = @ \o end_highlight],
                                  Tail(events), source,
                                  SubSeq(highlights, 1, Len(highlights) - 1), th)
              [] e.type = "Source" ->
                    render_events(add_text(r, SubSeq(source, e.start + 1, e.end),
                                           highlights, th),
                                  Tail(events), source, highlights, th)

\* HtmlRenderer::render: after the events the output is newline-terminated,
\* and an offset that points past the end is dropped
render(events, source, th) ==
    LET r1 == render_events(HtmlRenderer_new, events, source, <<>>, th)
        r2 == IF r1.html = <<>> \/ r1.html[Len(r1.html)] # "\n"
              THEN [r1 EXCEPT !.html = Append(@, "\n")]
              ELSE r1
        n  == Len(r2.line_offsets)
    IN IF n > 0 /\ r2.line_offsets[n] = Len(r2.html)
       THEN [r2 EXCEPT !.line_offsets = SubSeq(@, 1, n - 1)]
       ELSE r2

\* HtmlRenderer::lines: the output text cut at the line offsets
lines(r) ==
    [i \in 1..Len(r.line_offsets) |->
        SubSeq(r.html, r.line_offsets[i] + 1,
               IF i = Len(r.line_offsets) THEN Len(r.html)
               ELSE r.line_offsets[i + 1])]

\* the length of the source without the line breaks that end it
TrimmedLen(source) ==
    LET keep == {i \in 1..Len(source) : source[i] \notin {"\n", "\r"}}
    IN IF keep = {} THEN 0 ELSE MaxOf(keep)

\* Highlighter::highlight: the tagged span stream of the tokenizer.  The
\* tokenizer either tags nothing, or tags the source up to its final line
\* break with one highlight, the first of the theme's highlight names.
highlight_events(source, tagged) ==
    LET k == TrimmedLen(source)
        src(a, b) == [type |-> "Source", start |-> a, end |-> b]
    IN IF source = <<>> THEN <<>>
       ELSE IF tagged /\ k > 0
       THEN << [type |-> "HighlightStart", highlight |-> 0], src(0, k),
               [type |-> "HighlightEnd"] >>
            \o (IF k < Len(source) THEN << src(k, Len(source)) >> ELSE <<>>)
       ELSE << src(0, Len(source)) >>

Digits == <<"0","1","2","3","4","5","6","7","8","9">>

\* Display for usize: the decimal digits
RECURSIVE fmt_usize(_)
fmt_usize(n) ==
    IF n < 10 THEN << Digits[n + 1] >>
    ELSE fmt_usize(n \div 10) \o << Digits[(n % 10) + 1] >>

RowOpen == "<tr><td class=line-number>"
RowMid == "</td><td class=line>"
RowClose == "</td></tr>"

\* lib.rs:57-61: one writeln! per line, numbered i + 1
table_row(i, line) ==
    <<RowOpen>> \o fmt_usize(i + 1) \o <<RowMid>> \o line \o <<RowClose, "\n">>

\* lib.rs:56-62: the rows of lines i.., i counted from 0
RECURSIVE table_rows(_, _)
table_rows(ls, i) ==
    IF i >= Len(ls) THEN <<>>
    ELSE table_row(i, ls[i + 1]) \o table_rows(ls, i + 1)

\* lib.rs:30-67: string_html, given the theme and the tokenizer's events
string_html(th, source, events) ==
    << "<table>", "\n" >>
    \o table_rows(lines(render(events, source, th)), 0)
    \o << "</table>", "\n" >>

(***************************************************************************)
(* Bounds and input sets.                                                  *)
(***************************************************************************)
NumCallers == 2
MaxCalls == 2
MaxSourceLen == 2
MaxJunkLen == 3

Callers == 1..NumCallers
\* the thread whose calls Spec follows
MainThread == MinOf(Callers)

\* the public functions of lib.rs, and the prober its tests call
Operations == {"render_html", "generate_parser", "check_for_parser"}

\* all texts over an alphabet, up to a length
TextsUpTo(alphabet, n) == UNION {[1..k -> alphabet] : k \in 0..n}

SourceAlphabet == {"a", "<", "\n", "\r"}
Sources == TextsUpTo(SourceAlphabet, MaxSourceLen)

\* the themes: a style without css text, a style with a class attribute
PlainTheme == [styles |-> << [css |-> None] >>]
ClassTheme ==
    [styles |-> << [css |-> Some(<<"c","l","a","s","s","=","'","k","w","'">>)] >>]

\* what the tokenizer and the theme do together; a theme shows only where
\* something is tagged
Renderings ==
    { <<FALSE, PlainTheme>>, <<TRUE, PlainTheme>>, <<TRUE, ClassTheme>> }

\* the cache at start: empty, or left by an earlier run that provisioned Rust
InitialCaches == { {}, provisioned(homePath, "Rust") }

\* the file types the loader may know a grammar for
\* (every file type a TargetLanguage names in extension or in from_str)
AllGrammars ==
    { <<"r","s">>, <<"p","y">>, <<"j","s","o","n">>, <<"y","m","l">>,
      <<"y","a","m","l">>, <<"t","o","m","l">>, <<"h","t","m","l">>,
      <<"j","s">>, <<"s","h">> }
\* the loader knows none of them, one of them, or all of them
GrammarChoices == { {}, { <<"j","s","o","n">> }, AllGrammars }

\* the loader's grammars with the rendering: each rendering once, the tagged
\* ones where a grammar is known, the untagged one also where none is
\* (nothing is rendered then)
Environments ==
    { e \in [grammars : GrammarChoices, rendering : Renderings] :
        \/ e.rendering = << FALSE, PlainTheme >> /\ e.grammars \in {{}, AllGrammars}
        \/ e.rendering = << TRUE, PlainTheme >> /\ e.grammars \notin {{}, AllGrammars}
        \/ e.rendering = << TRUE, ClassTheme >> /\ e.grammars = AllGrammars }

\* the home directories tried: every one of HomeDirs where the loader knows
\* every grammar and the theme has a style, HomeDir alone elsewhere
HomeChoices(homes) ==
    IF homeOk /\ cwdOk /\ grammars = AllGrammars /\ theme = ClassTheme
    THEN homes ELSE {HomeDir}

(***************************************************************************)
(* The call in progress of one caller.                                     *)
(***************************************************************************)
Pending == Err("pending")

Idle == [pc |-> "idle", op |-> "none", lang |-> "none", log |-> <<>>,
         res |-> Pending, source |-> <<>>]

Log(rec, events) == [rec EXCEPT !.log = @ \o events]
Finish(rec, r) == [rec EXCEPT !.pc = "done", !.res = r]
Panicked(rec) == [rec EXCEPT !.pc = "panicked", !.res = Err("panic")]

\* where a call of each operation starts
EntryOf(op, lang) ==
    [Idle EXCEPT !.op = op, !.lang = lang,
                 !.pc = CASE op = "render_html" -> "rh_probe"
                          [] op = "generate_parser" -> "gp_preconditions"
                          [] op = "check_for_parser" -> "cp_probe",
                 !.log = IF op = "generate_parser" THEN <<"generate_parser">> ELSE <<>>]

(***************************************************************************)
(* lib.rs:70-111: render_html.                                             *)
(***************************************************************************)
\* lib.rs:71-73: a failed probe calls generate_parser, a successful one does not
rh_after_probe(rec, r) ==
    IF r.ok
    THEN Log([rec EXCEPT !.pc = "rh_loader"], <<"check_for_parser:ok">>)
    ELSE Log([rec EXCEPT !.pc = "gp_preconditions"],
             <<"check_for_parser:err", "generate_parser">>)

\* a render_html that provisions again when provisioning fails
rh_after_generate_retry(rec, r) ==
    IF r.ok THEN [rec EXCEPT !.pc = "rh_loader"]
    ELSE Log([rec EXCEPT !.pc = "gp_preconditions"], <<"generate_parser">>)

\* a render_html that drops the error of generate_parser
rh_after_generate_ignore(rec, r) == [rec EXCEPT !.pc = "rh_loader"]

\* lib.rs:72: generate_parser(lang)? returns the error to the caller
rh_after_generate(rec, r) ==
    IF r.ok THEN [rec EXCEPT !.pc = "rh_loader"] ELSE Finish(rec, r)

\* lib.rs:82-85: the extension of the language, or LanguageParserNotImplemented
rh_extension(rec) ==
    IF extension(rec.lang).some
    THEN Log([rec EXCEPT !.pc = "rh_lookup"], <<"extension:some">>)
    ELSE Finish(Log(rec, <<"extension:none">>), Err(LanguageParserNotImplemented))

\* lib.rs:87-89: Loader::language_configuration_for_file_name on
\* "dummy-name" with the extension: by file name, then by its extension
grammar_found(ext) ==
    LET path == with_extension(DummyName, ext)
    IN \/ file_name(path) \in grammars
       \/ /\ path_extension(path).some
          /\ path_extension(path).val \in grammars

\* the file type under which the grammar was found
grammar_file_type(ext) ==
    LET path == with_extension(DummyName, ext)
    IN IF file_name(path) \in grammars THEN file_name(path)
       ELSE path_extension(path).val

\* the name of the grammar the loader finds for a file type, which is the
\* name of the library the loader loads for it
grammar_name(file_type) ==
    CASE file_type = <<"r","s">> -> <<"r","u","s","t">>
      [] file_type = <<"p","y">> -> <<"p","y","t","h","o","n">>
      [] file_type = <<"j","s","o","n">> -> <<"j","s","o","n">>
      [] file_type = <<"y","m","l">> -> <<"y","a","m","l">>
      [] file_type = <<"y","a","m","l">> -> <<"y","a","m","l">>
      [] file_type = <<"t","o","m","l">> -> <<"t","o","m","l">>
      [] file_type = <<"h","t","m","l">> -> <<"h","t","m","l">>
      [] file_type = <<"j","s">> -> <<"j","a","v","a","s","c","r","i","p","t">>
      [] file_type = <<"s","h">> -> <<"b","a","s","h">>

\* Loader::load_language_at_path: the library of a grammar is
\* <cache dir>/tree-sitter/lib/<grammar name>.so, in the directory of the
\* artifact cache
library_path(home_path, file_type) ==
    join(cache_path(home_path), grammar_name(file_type) \o <<".","s","o">>)

\* a render_html for which a missing grammar is an error
rh_no_grammar_is_error(rec) ==
    Finish(Log(rec, <<"lookup:none">>), Err(LanguageParserNotImplemented))

\* lib.rs:91-93: no grammar matches: Ok("")
rh_no_grammar(rec) == Finish(Log(rec, <<"lookup:none">>), Ok(<<>>))

(***************************************************************************)
(* lib.rs:115-180: generate_parser.                                        *)
(***************************************************************************)
\* a generate_parser that resolves the home directory before anything else
gp_preconditions_home_first(lang) ==
    IF ~home_dir.some THEN Err(SharedLibDoesntExist)
    ELSE IF ~cwdOk THEN Err("std::io::Error")
    ELSE IF ~git_repo(lang).some THEN Err(LanguageParserNotImplemented)
    ELSE IF ~soname(lang).some THEN Err(SharedLibDoesntExist)
    ELSE Ok(<<>>)

\* lib.rs:120-135: the checks made before anything is written
gp_preconditions(lang) ==
    IF ~cwdOk THEN Err("std::io::Error")
    ELSE IF ~home_dir.some THEN Err(SharedLibDoesntExist)
    ELSE IF ~git_repo(lang).some THEN Err(LanguageParserNotImplemented)
    ELSE IF ~soname(lang).some THEN Err(SharedLibDoesntExist)
    ELSE Ok(<<>>)

\* generate_parser returns r: to the API caller, or into render_html
gp_return(rec, r) ==
    IF rec.op = "generate_parser" THEN Finish(rec, r) ELSE rh_after_generate(rec, r)

\* a generate_parser that leaves the clone to the caller already making it
gp_after_exists_one_cloner(rec, present) ==
    IF \/ present
       \/ \E d \in DOMAIN call : /\ call[d].lang = rec.lang
                                 /\ call[d].pc \in {"gp_clone", "gp_cloning"}
    THEN Log([rec EXCEPT !.pc = "gp_generate"], <<"repo_path.exists:yes">>)
    ELSE Log([rec EXCEPT !.pc = "gp_clone"], <<"repo_path.exists:no">>)

\* a generate_parser that clones whether or not the clone is there
gp_after_exists_always_clones(rec, present) ==
    Log([rec EXCEPT !.pc = "gp_clone"], <<"repo_path.exists:no">>)

\* a generate_parser that has nothing to do when the clone is there
gp_after_exists_done_when_present(rec, present) ==
    IF present
    THEN gp_return(Log(rec, <<"repo_path.exists:yes">>), Ok(<<>>))
    ELSE Log([rec EXCEPT !.pc = "gp_clone"], <<"repo_path.exists:no">>)

\* lib.rs:150-153: clone when the clone directory is absent, else go on to
\* generation
gp_after_exists(rec, present) ==
    IF present
    THEN Log([rec EXCEPT !.pc = "gp_generate"], <<"repo_path.exists:yes">>)
    ELSE Log([rec EXCEPT !.pc = "gp_clone"], <<"repo_path.exists:no">>)

(***************************************************************************)
(* Actions: one per step of a call.                                        *)
(***************************************************************************)
\* a caller starts a call; calls made by one thread do not overlap
Begin(c) ==
    /\ \A d \in Callers : call[d].pc = "idle"
    /\ calls < MaxCalls
    /\ \E op \in Operations, lang \in TargetLanguage :
          call' = [call EXCEPT ![c] = EntryOf(op, lang)]
    /\ calls' = calls + 1
    /\ UNCHANGED << homeOk, homePath, cwdOk, grammars, tagging, theme, files, pstate >>

\* check_for_parser called on its own (lib.rs:250-254)
CpProbe(c) ==
    /\ call[c].pc = "cp_probe"
    /\ call' = [call EXCEPT ![c] =
                  LET r == check_for_parser(call[c].lang)
                  IN Finish(Log(call[c], << IF r.ok THEN "check_for_parser:ok"
                                            ELSE "check_for_parser:err" >>), r)]
    /\ UNCHANGED << homeOk, homePath, cwdOk, grammars, tagging, theme, files, calls, pstate >>

\* lib.rs:71-73
RhProbe(c) ==
    /\ call[c].pc = "rh_probe"
    /\ call' = [call EXCEPT ![c] =
                  rh_after_probe(call[c], check_for_parser(call[c].lang))]
    /\ UNCHANGED << homeOk, homePath, cwdOk, grammars, tagging, theme, files, calls, pstate >>

\* lib.rs:120-135
GpPreconditions(c) ==
    /\ call[c].pc = "gp_preconditions"
    /\ call' = [call EXCEPT ![c] =
                  LET r == gp_preconditions(call[c].lang)
                  IN IF r.ok
                     THEN Log([call[c] EXCEPT !.pc = "gp_exists"], <<"preconditions:ok">>)
                     ELSE gp_return(Log(call[c], <<"preconditions:err">>), r)]
    /\ UNCHANGED << homeOk, homePath, cwdOk, grammars, tagging, theme, files, calls, pstate >>

\* lib.rs:150: if !repo_path.exists()
GpExists(c) ==
    /\ call[c].pc = "gp_exists"
    /\ call' = [call EXCEPT ![c] =
                  gp_after_exists(call[c], exists(repo_path(home_dir.val, call[c].lang)))]
    /\ UNCHANGED << homeOk, homePath, cwdOk, grammars, tagging, theme, files, calls, pstate >>

\* lib.rs:152: git2::Repository::clone(git_url, repo_path)? starts.  The
\* library clones only into a destination that does not exist; one that
\* exists by now is refused and left as it is.
GpClone(c) ==
    /\ call[c].pc = "gp_clone"
    /\ call' = [call EXCEPT ![c] =
                  IF exists(repo_path(home_dir.val, call[c].lang))
                  THEN gp_return(Log(call[c], <<"clone:err">>), Err("git2::Error"))
                  ELSE [call[c] EXCEPT !.pc = "gp_cloning"]]
    /\ UNCHANGED << homeOk, homePath, cwdOk, grammars, tagging, theme, files, calls, pstate >>

\* lib.rs:152: the clone ends.  It has created the clone directory with the
\* grammar definition in it, or it has failed (network) and removes the
\* destination it set out to create, with everything in it.
GpCloneEnd(c) ==
    /\ call[c].pc = "gp_cloning"
    /\ \E ok \in BOOLEAN :
          IF ok
          THEN /\ files' = files \cup { repo_path(home_dir.val, call[c].lang),
                                        grammar_path(home_dir.val, call[c].lang) }
               /\ call' = [call EXCEPT ![c] =
                             Log([call[c] EXCEPT !.pc = "gp_generate"], <<"clone:ok">>)]
          ELSE /\ files' = files \ clone_tree(home_dir.val, call[c].lang)
               /\ call' = [call EXCEPT ![c] =
                             gp_return(Log(call[c], <<"clone:err">>), Err("git2::Error"))]
    /\ UNCHANGED << homeOk, homePath, cwdOk, grammars, tagging, theme, calls, pstate >>

\* lib.rs:155-169: grammar_path.to_str().unwrap() panics on a path that is
\* not UTF-8; else generate::generate_parser_in_directory(...)?
GpGenerate(c) ==
    /\ call[c].pc = "gp_generate"
    /\ IF ~to_str(grammar_path(home_dir.val, call[c].lang)).some
       THEN /\ files' = files
            /\ call' = [call EXCEPT ![c] =
                          Panicked(Log(call[c], <<"generate:panic">>))]
       ELSE \E ok \in (IF exists(grammar_path(home_dir.val, call[c].lang))
                        THEN BOOLEAN ELSE {FALSE}) :
               IF ok
               THEN /\ files' = files \cup {generated_path(home_dir.val, call[c].lang)}
                    /\ call' = [call EXCEPT ![c] =
                                  Log([call[c] EXCEPT !.pc = "gp_loader"], <<"generate:ok">>)]
               ELSE /\ files' = files
                    /\ call' = [call EXCEPT ![c] =
                                  gp_return(Log(call[c], <<"generate:err">>),
                                            Err("generate error"))]
    /\ UNCHANGED << homeOk, homePath, cwdOk, grammars, tagging, theme, calls, pstate >>

\* lib.rs:172-174: Loader::new().unwrap(); loader.languages_at_path(&current_dir)?
GpLoader(c) ==
    /\ call[c].pc = "gp_loader"
    /\ \E outcome \in {"ok", "err", "panic"} :
          call' = [call EXCEPT ![c] =
                     CASE outcome = "ok" ->
                            Log([call[c] EXCEPT !.pc = "gp_compile"], <<"gp_loader:ok">>)
                       [] outcome = "err" ->
                            gp_return(Log(call[c], <<"gp_loader:err">>), Err("loader error"))
                       [] outcome = "panic" ->
                            Panicked(Log(call[c], <<"gp_loader:panic">>))]
    /\ UNCHANGED << homeOk, homePath, cwdOk, grammars, tagging, theme, files, calls, pstate >>

\* lib.rs:176-179: loader.compile_parser_at_path(&repo_path, sopath, ..)?; Ok(())
GpCompile(c) ==
    /\ call[c].pc = "gp_compile"
    /\ \E ok \in BOOLEAN :
          IF ok
          THEN /\ files' = files \cup {gp_sopath(home_dir.val, call[c].lang)}
               /\ call' = [call EXCEPT ![c] =
                             gp_return(Log(call[c], <<"compile:ok">>), Ok(<<>>))]
          ELSE /\ files' = files
               /\ call' = [call EXCEPT ![c] =
                             gp_return(Log(call[c], <<"compile:err">>),
                                       Err("compile error"))]
    /\ UNCHANGED << homeOk, homePath, cwdOk, grammars, tagging, theme, calls, pstate >>

\* lib.rs:75-80: the loader, the configuration, the theme, find_all_languages;
\* each is unwrapped.  Loader::new() fails when there is no home directory to
\* put its library directory under
RhLoader(c) ==
    /\ call[c].pc = "rh_loader"
    /\ \E ok \in (IF home_dir.some THEN BOOLEAN ELSE {FALSE}) :
          call' = [call EXCEPT ![c] =
                     IF ok THEN Log([call[c] EXCEPT !.pc = "rh_extension"], <<"loader:ok">>)
                     ELSE Panicked(Log(call[c], <<"loader:panic">>))]
    /\ UNCHANGED << homeOk, homePath, cwdOk, grammars, tagging, theme, files, calls, pstate >>

\* lib.rs:82-85
RhExtension(c) ==
    /\ call[c].pc = "rh_extension"
    /\ call' = [call EXCEPT ![c] = rh_extension(call[c])]
    /\ UNCHANGED << homeOk, homePath, cwdOk, grammars, tagging, theme, files, calls, pstate >>

\* lib.rs:87-94: the lookup finds nothing, or finds the grammar and loads its
\* language (Loader::language_for_id): the loader compiles the library of the
\* grammar and writes it unless it is there and up to date; the compilation
\* or the loading may fail (?)
RhLookup(c) ==
    /\ call[c].pc = "rh_lookup"
    /\ LET ext == extension(call[c].lang).val
       IN IF ~grammar_found(ext)
          THEN /\ call' = [call EXCEPT ![c] = rh_no_grammar(call[c])]
               /\ files' = files
          ELSE \E ok \in BOOLEAN :
                  IF ok
                  THEN /\ files' = files \cup
                                     {library_path(home_dir.val, grammar_file_type(ext))}
                       /\ call' = [call EXCEPT ![c] =
                                     Log([call[c] EXCEPT !.pc = "rh_config"],
                                         <<"lookup:some">>)]
                  ELSE /\ files' = files
                       /\ call' = [call EXCEPT ![c] =
                                     Finish(Log(call[c], <<"lookup:err">>),
                                            Err("loader error"))]
    /\ UNCHANGED << homeOk, homePath, cwdOk, grammars, tagging, theme, calls, pstate >>

\* lib.rs:96-99: highlight_config(language, None).unwrap().unwrap()
RhConfig(c) ==
    /\ call[c].pc = "rh_config"
    /\ \E ok \in BOOLEAN :
          call' = [call EXCEPT ![c] =
                     IF ok THEN Log([call[c] EXCEPT !.pc = "rh_render"], <<"highlight_config:ok">>)
                     ELSE Panicked(Log(call[c], <<"highlight_config:panic">>))]
    /\ UNCHANGED << homeOk, homePath, cwdOk, grammars, tagging, theme, files, calls, pstate >>

\* lib.rs:101-110: string_html on the bytes of code_block; the tokenizer or
\* the serializer may fail (?)
RhRender(c) ==
    /\ call[c].pc = "rh_render"
    /\ \E source \in Sources, ok \in BOOLEAN :
          call' = [call EXCEPT ![c] =
                     LET rec == [call[c] EXCEPT !.source = source]
                     IN IF ok
                        THEN Finish(Log(rec, <<"string_html:ok">>),
                                    Ok(string_html(theme, source,
                                                   highlight_events(source, tagging))))
                        ELSE Finish(Log(rec, <<"string_html:err">>),
                                    Err("tree_sitter_highlight::Error"))]
    /\ UNCHANGED << homeOk, homePath, cwdOk, grammars, tagging, theme, files, calls, pstate >>

\* the caller has its result (or has unwound) and is ready for the next call
Return(c) ==
    /\ call[c].pc \in {"done", "panicked"}
    /\ call' = [call EXCEPT ![c] = Idle]
    /\ UNCHANGED << homeOk, homePath, cwdOk, grammars, tagging, theme, files, calls, pstate >>

PIdle == [op |-> "none", query |-> <<>>, default |-> "none", lang |-> "none",
          result |-> "none"]

Init ==
    /\ homeOk \in BOOLEAN
    /\ cwdOk \in BOOLEAN
    /\ \E e \in Environments :
          /\ grammars = e.grammars
          /\ tagging = e.rendering[1]
          /\ theme = e.rendering[2]
    /\ homePath \in HomeChoices(HomeDirs)
    /\ files \in InitialCaches
    /\ calls = 0
    /\ call = [c \in Callers |-> Idle]
    /\ pstate = PIdle

Step(c) ==
    \/ Begin(c)
    \/ CpProbe(c)
    \/ RhProbe(c)
    \/ GpPreconditions(c)
    \/ GpExists(c)
    \/ GpClone(c)
    \/ GpCloneEnd(c)
    \/ GpGenerate(c)
    \/ GpLoader(c)
    \/ GpCompile(c)
    \/ RhLoader(c)
    \/ RhExtension(c)
    \/ RhLookup(c)
    \/ RhConfig(c)
    \/ RhRender(c)
    \/ Return(c)

Next == Step(MainThread)

Spec == Init /\ [][Next]_vars

(***************************************************************************)
(* Callers on several threads: the functions take no lock and share only   *)
(* the filesystem, so the steps of their calls interleave freely.          *)
(***************************************************************************)
\* a thread starts a call, whatever the other threads are doing
BeginConc(c) ==
    /\ call[c].pc = "idle"
    /\ calls < MaxCalls
    /\ \E op \in Operations, lang \in TargetLanguage :
          call' = [call EXCEPT ![c] = EntryOf(op, lang)]
    /\ calls' = calls + 1
    /\ UNCHANGED << homeOk, homePath, cwdOk, grammars, tagging, theme, files, pstate >>

StepConc(c) ==
    \/ BeginConc(c)
    \/ CpProbe(c)
    \/ RhProbe(c)
    \/ GpPreconditions(c)
    \/ GpExists(c)
    \/ GpClone(c)
    \/ GpCloneEnd(c)
    \/ GpGenerate(c)
    \/ GpLoader(c)
    \/ GpCompile(c)
    \/ RhLoader(c)
    \/ RhExtension(c)
    \/ RhLookup(c)
    \/ RhConfig(c)
    \/ RhRender(c)
    \/ Return(c)

NextConc == \E c \in Callers : StepConc(c)

\* the threads share one environment; the grammars the loader finds and the
\* highlight queries play no part in provisioning and are fixed here
InitConc ==
    /\ homeOk \in BOOLEAN
    /\ homePath = HomeDir
    /\ cwdOk \in BOOLEAN
    /\ grammars = AllGrammars
    /\ tagging = TRUE
    /\ theme = ClassTheme
    /\ files \in InitialCaches
    /\ calls = 0
    /\ call = [c \in Callers |-> Idle]
    /\ pstate = PIdle

SpecConc == InitConc /\ [][NextConc]_vars

(***************************************************************************)
(* The string-parsing API, called on its own.                              *)
(***************************************************************************)
\* the other case of an ASCII letter
char_to_uppercase(c) ==
    IF \E i \in DOMAIN AsciiLower : AsciiLower[i] = c
    THEN AsciiUpper[CHOOSE i \in DOMAIN AsciiLower : AsciiLower[i] = c]
    ELSE c

\* every spelling of s in upper and lower case
RECURSIVE CaseVariants(_)
CaseVariants(s) ==
    IF s = <<>> THEN { <<>> }
    ELSE { <<x>> \o rest : x \in {Head(s), char_to_uppercase(Head(s))},
                           rest \in CaseVariants(Tail(s)) }

JunkAlphabet == {".", "^", "r", "S", "x", "U+00C9", "U+0100", "U+0130", "U+03A3"}

\* the queries tried: every spelling of every pattern of from_str, and all
\* short texts over a small alphabet
Queries ==
    UNION {CaseVariants(AliasTable[i][1]) : i \in DOMAIN AliasTable}
    \cup TextsUpTo(JunkAlphabet, MaxJunkLen)

\* query.parse::<TargetLanguage>()
FromStr ==
    /\ pstate.op = "none"
    /\ \E q \in Queries :
          pstate' = [op |-> "from_str", query |-> q, default |-> "none", lang |-> "none",
                     result |-> from_str(q)]
    /\ UNCHANGED << homeOk, homePath, cwdOk, grammars, tagging, theme, files, calls, call >>

\* TargetLanguage::parse_or_default(query, default)
ParseOrDefault ==
    /\ pstate.op = "none"
    /\ \E q \in Queries, d \in TargetLanguage :
          pstate' = [op |-> "parse_or_default", query |-> q, default |-> d, lang |-> "none",
                     result |-> parse_or_default(q, d)]
    /\ UNCHANGED << homeOk, homePath, cwdOk, grammars, tagging, theme, files, calls, call >>

InitParse ==
    /\ homeOk = TRUE
    /\ homePath = HomeDir
    /\ cwdOk = TRUE
    /\ grammars = {}
    /\ tagging = FALSE
    /\ theme = PlainTheme
    /\ files = {}
    /\ calls = 0
    /\ call = [c \in Callers |-> Idle]
    /\ pstate = PIdle

\* the caller has the result and is ready for the next query
ParseReturn ==
    /\ pstate.op # "none"
    /\ pstate' = PIdle
    /\ UNCHANGED << homeOk, homePath, cwdOk, grammars, tagging, theme, files, calls, call >>

\* lang.extension() parsed back: lang.extension().unwrap().parse::<TargetLanguage>()
ExtensionParsed ==
    /\ pstate.op = "none"
    /\ \E lang \in TargetLanguage :
          /\ extension(lang).some
          /\ pstate' = [op |-> "extension_parsed", query |-> extension(lang).val,
                        default |-> "none", lang |-> lang,
                        result |-> from_str(extension(lang).val)]
    /\ UNCHANGED << homeOk, homePath, cwdOk, grammars, tagging, theme, files, calls, call >>

NextParse == FromStr \/ ParseOrDefault \/ ExtensionParsed \/ ParseReturn

SpecParse == InitParse /\ [][NextParse]_vars

(***************************************************************************)
(* Vocabulary of the properties.                                           *)
(***************************************************************************)
Has(log, event) == \E i \in DOMAIN log : log[i] = event
Count(log, event) == Cardinality({i \in DOMAIN log : log[i] = event})

\* the name of each variant of the enum, as Debug prints it
VariantName(lang) ==
    CASE lang = "Rust" -> <<"R","u","s","t">>
      [] lang = "Python" -> <<"P","y","t","h","o","n">>
      [] lang = "Json" -> <<"J","s","o","n">>
      [] lang = "Yaml" -> <<"Y","a","m","l">>
      [] lang = "Toml" -> <<"T","o","m","l">>
      [] lang = "Html" -> <<"H","t","m","l">>
      [] lang = "Javascript" -> <<"J","a","v","a","s","c","r","i","p","t">>
      [] lang = "Shell" -> <<"S","h","e","l","l">>

\* the canonical lowercase name of a language
CanonicalName(lang) == to_lowercase(VariantName(lang))

\* a query is recognized when an arm of from_str equals its lowercase form
Recognized(q) ==
    LET lowered == to_lowercase(q)
    IN \E i \in DOMAIN AliasTable : AliasTable[i][1] = lowered

\* the calls of render_html / generate_parser, in progress or just finished
RenderCalls == {c \in Callers : call[c].op = "render_html"}
GenerateCalls == {c \in Callers : call[c].op = "generate_parser"}

\* the events of a failed step, the empty lookup and the failed probe aside
FailureEvents ==
    {"preconditions:err", "clone:err", "generate:err", "generate:panic", "gp_loader:err",
     "gp_loader:panic", "compile:err", "loader:panic", "extension:none",
     "lookup:err", "highlight_config:panic", "string_html:err"}

\* str::lines: the number of lines of a text
NumLines(source) ==
    Cardinality(Positions(source, "\n"))
    + (IF source # <<>> /\ source[Len(source)] # "\n" THEN 1 ELSE 0)

\* the k-th line of a text, without its line feed
SourceLine(source, k) ==
    LET ends == Positions(source, "\n") \cup {Len(source) + 1}
        kth(j) == CHOOSE e \in ends : Cardinality({d \in ends : d < e}) = j - 1
    IN SubSeq(source, IF k = 1 THEN 1 ELSE kth(k - 1) + 1, kth(k) - 1)

\* how a source line shows in its cell: no carriage return, escaped, line feed
RECURSIVE Escaped(_)
Escaped(line) ==
    IF line = <<>> THEN <<>>
    ELSE (IF Head(line) = "\r" THEN <<>> ELSE << html_escape(Head(line)) >>)
         \o Escaped(Tail(line))

\* the rows of a rendered table
RowStarts(out) == {i \in DOMAIN out : out[i] = RowOpen}
NthRowStart(out, k) ==
    CHOOSE i \in RowStarts(out) : Cardinality({j \in RowStarts(out) : j < i}) = k - 1
FirstAfter(out, i, token) == MinOf({j \in i..Len(out) : out[j] = token})
RowNumber(out, k) ==
    SubSeq(out, NthRowStart(out, k) + 1, FirstAfter(out, NthRowStart(out, k), RowMid) - 1)
RowLine(out, k) ==
    SubSeq(out, FirstAfter(out, NthRowStart(out, k), RowMid) + 1,
           FirstAfter(out, NthRowStart(out, k), RowClose) - 1)
\* a cell without its tags
RECURSIVE StripTags(_)
StripTags(cell) ==
    IF cell = <<>> THEN <<>>
    ELSE IF Head(cell) = "</span>" THEN StripTags(Tail(cell))
    ELSE IF Head(cell) = "<span"
    THEN StripTags(SubSeq(cell, FirstAfter(cell, 1, ">") + 1, Len(cell)))
    ELSE << Head(cell) >> \o StripTags(Tail(cell))

EmptyTable == << "<table>", "\n", "</table>", "\n" >>

(***************************************************************************)
(* Properties.                                                             *)
(***************************************************************************)

\* C1: whenever generate_parser(lang) returns success, the artifact exists at
\* exactly the path check_for_parser(lang) probes, so a probe issued right
\* after succeeds; and a render_html call whose probe failed and whose
\* provisioning did not fail leaves the artifact present.
ProvisionedArtifactIsProbed ==
    \A c \in Callers :
       /\ (call[c].op = "generate_parser" /\ call[c].pc = "done" /\ call[c].res.ok)
             => /\ exists(cp_sopath(home_dir.val, call[c].lang))
                /\ check_for_parser(call[c].lang).ok
       /\ (/\ call[c].op = "render_html"
           /\ Has(call[c].log, "check_for_parser:err")
           /\ Has(call[c].log, "compile:ok"))
             => /\ exists(cp_sopath(home_dir.val, call[c].lang))
                /\ check_for_parser(call[c].lang).ok

\* C1 witness: a generate_parser call has returned success on a cold cache
ProvisioningSucceeded ==
    \E c \in GenerateCalls :
       /\ call[c].pc = "done" /\ call[c].res.ok
       /\ Has(call[c].log, "clone:ok") /\ Has(call[c].log, "compile:ok")

\* C2: in one render_html call a failed probe is followed by exactly one call
\* of generate_parser, never a second one; a successful probe by none.
ExactlyOneProvisioningAttempt ==
    \A c \in RenderCalls :
       /\ Count(call[c].log, "check_for_parser:ok")
             + Count(call[c].log, "check_for_parser:err") <= 1
       /\ Has(call[c].log, "check_for_parser:err")
             => Count(call[c].log, "generate_parser") = 1
       /\ ~Has(call[c].log, "check_for_parser:err")
             => Count(call[c].log, "generate_parser") = 0

\* C2 witness: a render_html call whose probe failed has ended with the error
\* of its one provisioning attempt
FailedProvisioningNotRetried ==
    \E c \in RenderCalls :
       /\ call[c].pc = "done" /\ ~call[c].res.ok
       /\ Has(call[c].log, "check_for_parser:err")
       /\ Has(call[c].log, "compile:err")

\* C5: when provisioning fails because the clone fails, the render_html call
\* returns that error, nothing runs after the failed clone, no artifact (and
\* no clone) is created, and check_for_parser still reports absence.
FailedCloneLeavesNothing ==
    \A c \in RenderCalls :
       Has(call[c].log, "clone:err")
          => /\ call[c].pc = "done"
             /\ ~call[c].res.ok
             /\ call[c].res.err = "git2::Error"
             /\ call[c].log[Len(call[c].log)] = "clone:err"
             /\ ~exists(cp_sopath(home_dir.val, call[c].lang))
             /\ ~exists(repo_path(home_dir.val, call[c].lang))
             /\ ~check_for_parser(call[c].lang).ok

\* C5 witness: a render_html call has ended on a failed clone
RenderEndedOnFailedClone ==
    \E c \in RenderCalls :
       /\ call[c].pc = "done"
       /\ Has(call[c].log, "check_for_parser:err")
       /\ Has(call[c].log, "clone:err")

\* C6: every recognized alias, in any case, with or without its leading dot,
\* parses to the same language as that language's canonical lowercase name
\* (and as its own lowercase spelling).
AliasesParseLikeCanonicalName ==
    pstate.op = "from_str"
       => /\ pstate.result = from_str(to_lowercase(pstate.query))
          /\ pstate.result.ok
                => /\ from_str(CanonicalName(pstate.result.val)) = pstate.result
                   /\ Head(pstate.query) = "."
                         => from_str(Tail(pstate.query)) = pstate.result

\* C6 witness: the alias ".Rs" has been parsed, to Rust
DottedMixedCaseAliasParsed ==
    /\ pstate.op = "from_str"
    /\ pstate.query = << ".", "R", "s" >>
    /\ pstate.result = Ok("Rust")

\* C7: parse_or_default returns exactly the default for every query that is
\* not recognized, and the parsed language, whatever the default, for every
\* query that is; it always returns a language.
UnrecognizedGivesDefault ==
    pstate.op = "parse_or_default"
       => /\ pstate.result \in TargetLanguage
          /\ ~Recognized(pstate.query) => pstate.result = pstate.default
          /\ Recognized(pstate.query)
                => LET lowered == to_lowercase(pstate.query)
                   IN \E i \in DOMAIN AliasTable :
                         /\ AliasTable[i][1] = lowered
                         /\ AliasTable[i][2] = pstate.result

\* C7 witness: an unrecognized query came back as the default, Toml
DefaultReturned ==
    /\ pstate.op = "parse_or_default"
    /\ ~Recognized(pstate.query)
    /\ pstate.query = << ".", "r" >>
    /\ pstate.default = "Toml"
    /\ pstate.result = "Toml"

\* C8: the rendered table has exactly one row per line of the source, in
\* order, numbered 1..=N.
OneRowPerSourceLine ==
    \A c \in RenderCalls :
       (call[c].pc = "done" /\ Has(call[c].log, "string_html:ok"))
          => LET out == call[c].res.val
                 n == NumLines(call[c].source)
             IN /\ Cardinality(RowStarts(out)) = n
                /\ \A k \in 1..n :
                      /\ RowNumber(out, k) = fmt_usize(k)
                      /\ StripTags(RowLine(out, k))
                            = Escaped(SourceLine(call[c].source, k)) \o << "\n" >>

\* C9: for an empty source, render_html returns exactly the opening table
\* line followed by the closing table line, with no rows.
EmptySourceGivesEmptyTable ==
    \A c \in RenderCalls :
       (/\ call[c].pc = "done"
        /\ Has(call[c].log, "string_html:ok")
        /\ call[c].source = <<>>)
          => call[c].res.val = EmptyTable

\* C10: when no grammar matches the extension, also after provisioning,
\* render_html returns Ok("") and not an error; no other failed step ends in
\* a success, and every other success is a table.
NoGrammarGivesEmptyString ==
    \A c \in RenderCalls :
       /\ Has(call[c].log, "lookup:none")
             => /\ call[c].pc = "done"
                /\ call[c].res = Ok(<<>>)
       /\ (call[c].pc = "done" /\ call[c].res.ok /\ ~Has(call[c].log, "lookup:none"))
             => /\ call[c].res.val # <<>>
                /\ Has(call[c].log, "string_html:ok")
       /\ (\E i \in DOMAIN call[c].log : call[c].log[i] \in FailureEvents)
             => /\ call[c].pc \in {"done", "panicked"}
                /\ ~call[c].res.ok

\* C10 witness: a render_html call provisioned the parser, found no grammar
\* for the extension and returned Ok("")
EmptyResultAfterProvisioning ==
    \E c \in RenderCalls :
       /\ call[c].pc = "done"
       /\ Has(call[c].log, "compile:ok")
       /\ Has(call[c].log, "lookup:none")
       /\ call[c].res = Ok(<<>>)

CloneEvents == {"clone:ok", "clone:err"}
GenerateEvents == {"generate:ok", "generate:err", "generate:panic"}
GpLoaderEvents == {"gp_loader:ok", "gp_loader:err", "gp_loader:panic"}
CompileEvents == {"compile:ok", "compile:err"}

(***************************************************************************)
(* C12: generate_parser clones exactly when the clone directory is absent  *)
(* when it is checked; when the directory is there (the artifact may be    *)
(* there too) no clone is made and the call goes on to generation and      *)
(* then compilation, every time.  In the history of every call: a clone    *)
(* follows "absent" and nothing else; generation follows "present" or a    *)
(* successful clone; compilation follows a successful generation and the   *)
(* loader set-up, and nothing else.                                        *)
(***************************************************************************)
ClonesIffAbsentThenGeneratesAndCompiles ==
    \A c \in Callers :
        LET log == call[c].log
            pc == call[c].pc
            n == Len(call[c].log)
        IN \A i \in DOMAIN log :
              /\ log[i] = "repo_path.exists:no"
                    => IF i = n THEN pc \in {"gp_clone", "gp_cloning"}
                       ELSE log[i + 1] \in CloneEvents
              /\ log[i] \in CloneEvents
                    => i > 1 /\ log[i - 1] = "repo_path.exists:no"
              /\ log[i] \in {"repo_path.exists:yes", "clone:ok"}
                    => IF i = n THEN pc = "gp_generate"
                       ELSE log[i + 1] \in GenerateEvents
              /\ log[i] \in GenerateEvents
                    => i > 1 /\ log[i - 1] \in {"repo_path.exists:yes", "clone:ok"}
              /\ log[i] = "generate:ok"
                    => IF i = n THEN pc = "gp_loader"
                       ELSE log[i + 1] \in GpLoaderEvents
              /\ log[i] = "gp_loader:ok"
                    => IF i = n THEN pc = "gp_compile"
                       ELSE log[i + 1] \in CompileEvents
              /\ log[i] \in CompileEvents
                    => i > 2 /\ log[i - 1] = "gp_loader:ok" /\ log[i - 2] = "generate:ok"

\* the first call, generate_parser on a cache that holds the clone and the
\* artifact, has generated and compiled again without cloning
RegeneratedWithoutClone ==
    \E c \in GenerateCalls :
        /\ calls = 1
        /\ call[c].pc = "done"
        /\ call[c].res.ok
        /\ call[c].log = << "generate_parser", "preconditions:ok", "repo_path.exists:yes",
                            "generate:ok", "gp_loader:ok", "compile:ok" >>
        /\ exists(gp_sopath(home_dir.val, call[c].lang))

\* what the probe of lang must answer in the current state
ProbeAnswer(lang) ==
    IF \/ ~homeOk
       \/ ~soname(lang).some
       \/ gp_sopath(homePath, lang) \notin files
    THEN Err(SharedLibDoesntExist)
    ELSE Ok(<<>>)

(***************************************************************************)
(* C13: check_for_parser(lang) fails with SharedLibDoesntExist exactly     *)
(* when the home directory cannot be resolved, or the language has no      *)
(* artifact file name, or the artifact file is absent, and succeeds        *)
(* otherwise; the probe, called on its own or by render_html, leaves the   *)
(* filesystem as it was.                                                   *)
(***************************************************************************)
ProbeAnswersFromCacheAndWritesNothing ==
    [][ \A c \in Callers :
          /\ (call[c].pc = "cp_probe" /\ call'[c].pc # "cp_probe")
                => /\ call'[c].pc = "done"
                   /\ call'[c].res = ProbeAnswer(call[c].lang)
                   /\ files' = files
          /\ (call[c].pc = "rh_probe" /\ call'[c].pc # "rh_probe")
                => /\ call'[c].log[1] = IF ProbeAnswer(call[c].lang).ok
                                        THEN "check_for_parser:ok"
                                        ELSE "check_for_parser:err"
                   /\ files' = files ]_vars

\* the probe has failed for an artifact that is on disk, because the home
\* directory does not resolve
ProbeFailedWithoutHome ==
    \E c \in Callers :
        /\ call[c].op = "check_for_parser"
        /\ call[c].pc = "done"
        /\ ~homeOk
        /\ gp_sopath(homePath, call[c].lang) \in files
        /\ call[c].res = Err(SharedLibDoesntExist)

(***************************************************************************)
(* C14: a render_html whose probe succeeds makes no clone, no generation   *)
(* and no compilation and leaves the artifact cache and the clone          *)
(* directories as they were; the only steps that write there are steps of  *)
(* generate_parser.  (The grammar lookup of render_html breaks it: the     *)
(* loader writes the library of the grammar into the artifact cache.)      *)
(***************************************************************************)
WarmRenderWritesNothing ==
    [][ \A c \in Callers :
          /\ ( /\ call[c].op = "render_html"
               /\ call[c].log # <<>>
               /\ call[c].log[1] = "check_for_parser:ok"
               /\ call'[c] # call[c] )
                => /\ files' = files
                   /\ call'[c].pc \notin {"gp_preconditions", "gp_exists", "gp_clone",
                                          "gp_cloning", "gp_generate", "gp_loader",
                                          "gp_compile"}
                   /\ \A i \in DOMAIN call'[c].log :
                         call'[c].log[i] \notin
                            {"generate_parser"} \cup CloneEvents \cup GenerateEvents
                               \cup CompileEvents
          /\ (call'[c] # call[c] /\ files' # files)
                => /\ call[c].pc \in {"gp_cloning", "gp_generate", "gp_compile"}
                   /\ Has(call[c].log, "generate_parser") ]_vars

\* two callers are provisioning the same language
SameLanguage(c, d) ==
    /\ c # d
    /\ call[c].lang = call[d].lang
    /\ Has(call[c].log, "generate_parser")
    /\ Has(call[d].log, "generate_parser")

(***************************************************************************)
(* C15: nothing guards the clone-or-skip check or the artifact write       *)
(* against another caller.  Whatever the other callers are doing, a        *)
(* caller that finds the clone directory absent goes on to clone, and a    *)
(* compilation that succeeds writes the artifact path of the language.     *)
(* The race itself is the state BothClonedAndWroteArtifact.                *)
(***************************************************************************)
NoLockAroundCloneCheckOrArtifactWrite ==
    [][ \A c \in Callers :
          /\ (call[c].pc = "gp_exists" /\ call'[c] # call[c])
                => call'[c].pc = IF repo_path(home_dir.val, call[c].lang) \in files
                                 THEN "gp_generate" ELSE "gp_clone"
          /\ (call[c].pc = "gp_compile" /\ Has(call'[c].log, "compile:ok"))
                => gp_sopath(home_dir.val, call[c].lang) \in files' ]_vars

\* two concurrent callers of one language have both seen the clone directory
\* absent, both cloned into it and both written the artifact
BothClonedAndWroteArtifact ==
    \E c, d \in Callers :
        /\ SameLanguage(c, d)
        /\ \A e \in {c, d} :
              /\ Has(call[e].log, "repo_path.exists:no")
              /\ Has(call[e].log, "clone:ok")
              /\ Has(call[e].log, "compile:ok")
        /\ repo_path(home_dir.val, call[c].lang) = repo_path(home_dir.val, call[d].lang)
        /\ gp_sopath(home_dir.val, call[c].lang) = gp_sopath(home_dir.val, call[d].lang)
        /\ gp_sopath(home_dir.val, call[c].lang) \in files

\* every path generate_parser(lang) creates, removes or checks
PathsUnder == [home \in HomeDirs |-> [lang \in TargetLanguage |-> provisioned(home, lang)]]
PathsOf == PathsUnder[homePath]

\* where a call is while generate_parser runs
ProvisioningSteps ==
    {"gp_preconditions", "gp_exists", "gp_clone", "gp_cloning", "gp_generate",
     "gp_loader", "gp_compile"}

\* no two languages share an artifact file name, a clone directory name or
\* a path
DistinctNames ==
    \A l1, l2 \in TargetLanguage :
        l1 # l2 => /\ soname(l1).val # soname(l2).val
                   /\ repo_name(git_repo(l1).val) # repo_name(git_repo(l2).val)
                   /\ \A home \in HomeDirs :
                         PathsUnder[home][l1] \cap PathsUnder[home][l2] = {}

CloneDirectoryUnder ==
    [home \in HomeDirs |-> [lang \in TargetLanguage |-> repo_path(home, lang)]]
CloneDirectoryOf == CloneDirectoryUnder[homePath]

(***************************************************************************)
(* C17: in any sequence of calls, a clone directory that exists is never   *)
(* deleted, and a call for a language whose clone directory it did not     *)
(* create itself never clones.                                             *)
(***************************************************************************)
CloneDirectoryPersists ==
    [][ /\ \A lang \in TargetLanguage :
             CloneDirectoryOf[lang] \in files => CloneDirectoryOf[lang] \in files'
        /\ \A c \in Callers :
             ( /\ call[c].pc # "idle"
               /\ CloneDirectoryOf[call[c].lang] \in files
               /\ ~Has(call'[c].log, "clone:ok") )
                => /\ call'[c].pc \notin {"gp_clone", "gp_cloning"}
                   /\ \A i \in DOMAIN call'[c].log : call'[c].log[i] \notin CloneEvents
      ]_vars

\* a second call for a language has provisioned again from the clone made
\* by the first
SecondCallReusedClone ==
    \E c \in Callers :
        /\ calls = 2
        /\ call[c].pc = "done"
        /\ Has(call[c].log, "repo_path.exists:yes")
        /\ Has(call[c].log, "compile:ok")
        /\ call[c].lang # "Rust"
        /\ repo_path(homePath, call[c].lang) \in files

\* the steps of generate_parser that come after its preconditions
ProvisioningEvents ==
    {"repo_path.exists:yes", "repo_path.exists:no"} \cup CloneEvents
       \cup GenerateEvents \cup GpLoaderEvents \cup CompileEvents

\* a call has ended on a failed precondition of generate_parser
EndedOnPrecondition(c) ==
    /\ call[c].pc = "done"
    /\ call[c].log # <<>>
    /\ call[c].log[Len(call[c].log)] = "preconditions:err"

(***************************************************************************)
(* C18 as stated: the first precondition generate_parser checks is the     *)
(* home directory, so a call made while the home directory does not        *)
(* resolve ends with SharedLibDoesntExist, whatever the language.          *)
(***************************************************************************)
HomeDirectoryCheckedFirst ==
    \A c \in Callers :
        (EndedOnPrecondition(c) /\ ~homeOk)
           => call[c].res = Err(SharedLibDoesntExist)

(***************************************************************************)
(* C18 amended: generate_parser checks, in this order and before any       *)
(* write or tool call: the current directory (its I/O error is returned),  *)
(* the home directory (SharedLibDoesntExist), the repository URL of the    *)
(* language (LanguageParserNotImplemented), its artifact file name         *)
(* (SharedLibDoesntExist).  The first check that fails decides the error   *)
(* and nothing has been done; the clone-or-skip check, cloning,            *)
(* generation and compilation are reached only when all four pass.         *)
(***************************************************************************)
PreconditionsCheckedInOrder ==
    \A c \in Callers :
        LET log == call[c].log
            lang == call[c].lang
        IN /\ EndedOnPrecondition(c)
                => /\ call[c].res =
                         Err(IF ~cwdOk THEN "std::io::Error"
                             ELSE IF ~homeOk THEN SharedLibDoesntExist
                             ELSE IF ~git_repo(lang).some THEN LanguageParserNotImplemented
                             ELSE SharedLibDoesntExist)
                   /\ \A i \in DOMAIN log : log[i] \notin ProvisioningEvents
           /\ (\E i \in DOMAIN log : log[i] \in ProvisioningEvents)
                => /\ Has(log, "preconditions:ok")
                   /\ cwdOk /\ homeOk
                   /\ git_repo(lang).some /\ soname(lang).some

\* generate_parser has returned SharedLibDoesntExist because the home
\* directory does not resolve (the current directory does), and has written
\* nothing
StoppedAtHomeDirectory ==
    \E c \in GenerateCalls :
        /\ EndedOnPrecondition(c)
        /\ cwdOk /\ ~homeOk
        /\ call[c].res = Err(SharedLibDoesntExist)
        /\ calls = 1
        /\ files \in InitialCaches

(***************************************************************************)
(* C19: for every language L, parsing the canonical extension of L gives   *)
(* back L; hence no two languages have the same extension, and the file    *)
(* type render_html looks a grammar up by belongs to L alone.              *)
(***************************************************************************)
ExtensionParsesBackToItsLanguage ==
    pstate.op = "extension_parsed"
       => /\ pstate.result = Ok(pstate.lang)
          /\ \A other \in TargetLanguage \ {pstate.lang} :
                extension(other).val # pstate.query

=============================================================================
